---- MODULE Spec2Model ----
(***************************************************************************)
(* UNDERTALE save manager: the snapshot manager (list_backups,             *)
(* backup_save, load_save) over a live save directory and a backup root,   *)
(* the save reader (class Save) with its genocide-route classifier, and    *)
(* the application around them: the configuration file (load_config,       *)
(* save_config), the save list and the buttons that back up and load.      *)
(*                                                                         *)
(* A directory is a function from entry names to nodes; a node is a file   *)
(* with a content, or a directory with entries of its own.  The live save  *)
(* directory GAME_SAVE_DIR and the backup root exist throughout; symbolic  *)
(* links, permissions and I/O failures of the medium are not modelled.     *)
(***************************************************************************)
EXTENDS Integers, Sequences, FiniteSets, TLC

VARIABLES
    live,      \* the entries of GAME_SAVE_DIR
    root,      \* the backup root: backup name -> entries of root/name
    result,    \* the last call: operation, arguments, message printed, exception raised
    ret,       \* the value the last call returned
    snap,      \* the live directory and root/name as they were before the last backup_save,
               \* kept through the load_save(rm=True) of that backup that follows it
    used,      \* the entry names the game and the user have written so far
    config_file,   \* CONFIG_FILE: absent, or the text it holds
    screen     \* the BackupNameScreen on top of the screen stack, if any: its rm flag, the
               \* save it was opened for and the live directory as the handler found it

vars == <<live, root, result, ret, snap, used, config_file, screen>>

----------------------------------------------------------------------------
(* Bounds *)

MaxNames == 2        \* the game and the user write at most MaxNames different entry names
MaxTicks == 95       \* tick counts written to line 548 are 0..MaxTicks

----------------------------------------------------------------------------
(* Text: a Python string is a sequence of one-character strings; a text file
   is its list of lines as readlines() returns them, kept sparsely: `n` lines,
   those in `at` as given and every other line equal to Fill. *)

Whitespace == {" ", "\n", "\t", "\r"}

Digits == <<"0", "1", "2", "3", "4", "5", "6", "7", "8", "9">>

Upper == <<"A", "B", "C", "D", "E", "F", "G", "H", "I", "J", "K", "L", "M",
           "N", "O", "P", "Q", "R", "S", "T", "U", "V", "W", "X", "Y", "Z">>

Lower == <<"a", "b", "c", "d", "e", "f", "g", "h", "i", "j", "k", "l", "m",
           "n", "o", "p", "q", "r", "s", "t", "u", "v", "w", "x", "y", "z">>

\* str.strip(): without leading and trailing whitespace
RECURSIVE lstrip(_), rstrip(_)
lstrip(s) == IF s # <<>> /\ Head(s) \in Whitespace THEN lstrip(Tail(s)) ELSE s

rstrip(s) == IF s # <<>> /\ s[Len(s)] \in Whitespace THEN rstrip(SubSeq(s, 1, Len(s) - 1)) ELSE s

strip(s) == rstrip(lstrip(s))

\* str.lower(): the lower-case letter of each upper-case letter
LowerOf == [c \in {Upper[k] : k \in DOMAIN Upper} |-> Lower[CHOOSE k \in DOMAIN Upper : Upper[k] = c]]

lower(s) == [i \in DOMAIN s |-> IF s[i] \in DOMAIN LowerOf THEN LowerOf[s[i]] ELSE s[i]]

RECURSIVE Decimal(_)
Decimal(s) ==
    IF s = <<>> THEN 0
    ELSE 10 * Decimal(SubSeq(s, 1, Len(s) - 1))
         + (CHOOSE d \in 0..9 : Digits[d + 1] = s[Len(s)])

\* int(s): surrounding whitespace is dropped, then an optional sign and one or
\* more digits; anything else raises ValueError (ok = FALSE)
int(s) ==
    LET t == strip(s)
        signed == t # <<>> /\ Head(t) \in {"+", "-"}
        body == IF signed THEN Tail(t) ELSE t
        ok == body # <<>> /\ \A i \in DOMAIN body : \E d \in DOMAIN Digits : Digits[d] = body[i]
    IN [ok |-> ok,
        v |-> IF ~ok THEN 0 ELSE IF signed /\ Head(t) = "-" THEN 0 - Decimal(body) ELSE Decimal(body)]

\* Mutant of round_div30: a tie is rounded up
round_half_up(t) == (t + 15) \div 30

\* round(t / 30): Python 3 rounds a float to the nearest integer and a tie to
\* the even one; t / 30 is exact at a tie
round_div30(t) ==
    LET q == t \div 30
        r == t % 30
    IN IF r < 15 THEN q
       ELSE IF r > 15 THEN q + 1
       ELSE IF q % 2 = 0 THEN q ELSE q + 1

Fill == <<"0", "\n">>

NoLines == [n |-> 0, at |-> <<>>]

\* data[i] of the list of lines read from a file, for 0 <= i < len(data)
Line(data, i) == IF i \in DOMAIN data.at THEN data.at[i] ELSE Fill

\* The line holding the decimal text of k >= 0
RECURSIVE Numeral(_)
Numeral(k) == IF k < 10 THEN <<Digits[k + 1]>> ELSE Append(Numeral(k \div 10), Digits[(k % 10) + 1])

NumberLine(k) == Append(Numeral(k), "\n")

----------------------------------------------------------------------------
(* Directory trees *)

EmptyDir == [n \in {} |-> 0]

\* A file holding the lines c
File(c) == [t |-> "file", c |-> c, e |-> EmptyDir]

Directory(e) == [t |-> "dir", c |-> NoLines, e |-> e]

\* Path.is_dir() of an entry
is_dir(node) == node.t = "dir"

\* (dir / name).exists()
exists(dir, n) == n \in DOMAIN dir

\* dir with entry n set to node
Put(dir, n, node) == [m \in DOMAIN dir \cup {n} |-> IF m = n THEN node ELSE dir[m]]

\* The orders in which Path.iterdir() may yield the entries of dir
iterdir(dir) ==
    LET k == Cardinality(DOMAIN dir)
    IN {s \in [1..k -> DOMAIN dir] : \A i, j \in 1..k : i # j => s[i] # s[j]}

\* Mutant of copy: a file that is already there is not overwritten
copy_if_absent(dir, n, c) ==
    IF exists(dir, n)
    THEN [tree |-> dir, raised |-> "none"]
    ELSE [tree |-> Put(dir, n, File(c)), raised |-> "none"]

\* shutil.copy / shutil.copy2 of a file with content c to dir/n: onto an existing
\* directory the file goes inside it under its own name; opening a directory
\* for writing raises IsADirectoryError.
copy(dir, n, c) ==
    IF exists(dir, n) /\ is_dir(dir[n])
    THEN IF exists(dir[n].e, n) /\ is_dir(dir[n].e[n])
         THEN [tree |-> dir, raised |-> "IsADirectoryError"]
         ELSE [tree |-> Put(dir, n, Directory(Put(dir[n].e, n, File(c)))), raised |-> "none"]
    ELSE [tree |-> Put(dir, n, File(c)), raised |-> "none"]

\* shutil.copytree(src, dst, dirs_exist_ok=True): copytree makes dst (raising
\* FileExistsError when dst is a file) and copies every entry of src into it; a
\* failing entry is recorded and the others are still copied, and shutil.Error
\* is raised at the end if any failed.  copytree_to is the call for the
\* directory with entries src and the destination dir/n.
RECURSIVE copytree(_, _), copytree_to(_, _, _)
copytree(src, dst) ==
    LET entry(n) == IF is_dir(src[n]) THEN copytree_to(dst, n, src[n].e)
                                      ELSE copy(dst, n, src[n].c)
    IN [tree |-> [n \in DOMAIN src \cup DOMAIN dst |->
                    IF n \in DOMAIN src THEN entry(n).tree[n] ELSE dst[n]],
        raised |-> IF \E n \in DOMAIN src : entry(n).raised # "none" THEN "Error" ELSE "none"]

copytree_to(dir, n, src) ==
    IF exists(dir, n) /\ ~is_dir(dir[n])
    THEN [tree |-> dir, raised |-> "FileExistsError"]
    ELSE LET sub == copytree(src, IF exists(dir, n) THEN dir[n].e ELSE EmptyDir)
         IN [tree |-> Put(dir, n, Directory(sub.tree)), raised |-> sub.raised]

\* Mutant of RemoveItems: only the files are unlinked, the directories stay
RemoveFiles(dir) == [n \in {m \in DOMAIN dir : is_dir(dir[m])} |-> dir[n]]

\* for item in GAME_SAVE_DIR.iterdir(): rmtree(item) if item.is_dir() else item.unlink()
RemoveItems(dir) ==
    [n \in {m \in DOMAIN dir : ~(is_dir(dir[m]) \/ ~is_dir(dir[m]))} |-> dir[n]]

\* Mutant of LoadItems: the directories of the backup are skipped
RECURSIVE LoadFiles(_, _, _)
LoadFiles(order, src, dst) ==
    IF order = <<>>
    THEN [tree |-> dst, raised |-> "none"]
    ELSE LET n == Head(order)
             step == IF is_dir(src[n]) THEN [tree |-> dst, raised |-> "none"]
                                       ELSE copy(dst, n, src[n].c)
         IN IF step.raised # "none" THEN step ELSE LoadFiles(Tail(order), src, step.tree)

\* The loop of load_save over path.iterdir() in the order `order`: each directory
\* is merged with copytree, each file copied with shutil.copy; the first
\* exception ends the loop and leaves what was copied so far.
RECURSIVE LoadItems(_, _, _)
LoadItems(order, src, dst) ==
    IF order = <<>>
    THEN [tree |-> dst, raised |-> "none"]
    ELSE LET n == Head(order)
             step == IF is_dir(src[n]) THEN copytree_to(dst, n, src[n].e)
                                       ELSE copy(dst, n, src[n].c)
         IN IF step.raised # "none" THEN step ELSE LoadItems(Tail(order), src, step.tree)

\* Mutant of SaveExists: only file0 counts as a current save
SaveExistsFile0(dir) == exists(dir, "file0")

\* The test of load_save for a current save in GAME_SAVE_DIR
SaveExists(dir) == exists(dir, "file0") \/ exists(dir, "file9") \/ exists(dir, "undertale.ini")

----------------------------------------------------------------------------
(* Python values held by a Save object *)

PyStr(s) == [t |-> "str", s |-> s, n |-> 0, b |-> FALSE, d |-> NoLines]

PyBool(b) == [t |-> "bool", s |-> <<>>, n |-> 0, b |-> b, d |-> NoLines]

\* timedelta(seconds=n)
PyDelta(n) == [t |-> "timedelta", s |-> <<>>, n |-> n, b |-> FALSE, d |-> NoLines]

PyList(d) == [t |-> "list", s |-> <<>>, n |-> 0, b |-> FALSE, d |-> d]

\* "N/A"
NA == <<"N", "/", "A">>

\* "(Empty Save)"
EmptySaveName == <<"(", "E", "m", "p", "t", "y", " ", "S", "a", "v", "e", ")">>

One == <<"1">>

----------------------------------------------------------------------------
(* Room table (undertale_manager.ids.ROOM_IDS): a list of {id, area, name}
   indexed by room id, entry 0 being the ERROR room and entry 4 the room
   Beginning of RUINS; one room stands for each further area. *)

Room(id, area, name) == [id |-> id, area |-> area, name |-> name]

ROOM_IDS ==
    << Room(<<"0">>, <<"E", "R", "R", "O", "R">>, <<"E", "r", "r", "o", "r">>),
       Room(<<"1">>, <<"E", "R", "R", "O", "R">>, <<"I", "n", "t", "r", "o">>),
       Room(<<"2">>, <<"E", "R", "R", "O", "R">>, <<"I", "m", "a", "g", "e">>),
       Room(<<"3">>, <<"E", "R", "R", "O", "R">>, <<"M", "e", "n", "u">>),
       Room(<<"4">>, <<"R", "U", "I", "N", "S">>, <<"B", "e", "g", "i", "n", "n", "i", "n", "g">>),
       Room(<<"5">>, <<"S", "N", "O", "W", "D", "I", "N">>, <<"T", "o", "w", "n">>),
       Room(<<"6">>, <<"W", "A", "T", "E", "R", "F", "A", "L", "L">>, <<"H", "a", "l", "l">>),
       Room(<<"7">>, <<"H", "O", "T", "L", "A", "N", "D">>, <<"L", "a", "b">>),
       Room(<<"8">>, <<"C", "O", "R", "E">>, <<"E", "n", "d">>),
       Room(<<"9">>, <<"N", "E", "W", " ", "H", "O", "M", "E">>, <<"H", "o", "m", "e">>),
       Room(<<"1", "0">>, <<"T", "R", "U", "E", " ", "L", "A", "B">>, <<"B", "e", "d">>) >>

\* lst[i] of a Python list: i counts from 0, a negative i from the end;
\* outside -len(lst) .. len(lst) - 1 it raises IndexError
InRange(lst, i) == 0 - Len(lst) <= i /\ i < Len(lst)

Item(lst, i) == IF i >= 0 THEN lst[i + 1] ELSE lst[Len(lst) + i + 1]

\* dict.get(key, default)
Get(dict, key, default) == IF key \in DOMAIN dict THEN dict[key] ELSE default

----------------------------------------------------------------------------
(* class Save *)

\* Save.is_valid(): (self.path / "file0").exists()
is_valid(dir) == exists(dir, "file0")

\* The match statement over self.room_area.lower()
current_area(room_area) ==
    LET a == lower(room_area)
    IN IF a = <<"e", "r", "r", "o", "r">> THEN 0
       ELSE IF a = <<"r", "u", "i", "n", "s">> THEN 1
       ELSE IF a = <<"s", "n", "o", "w", "d", "i", "n">> THEN 2
       ELSE IF a = <<"w", "a", "t", "e", "r", "f", "a", "l", "l">> THEN 3
       ELSE IF a = <<"h", "o", "t", "l", "a", "n", "d">> THEN 4
       ELSE IF a = <<"c", "o", "r", "e">> THEN 5
       ELSE IF a = <<"n", "e", "w", " ", "h", "o", "m", "e">> THEN 6
       ELSE 7

\* Mutant of genocide_areas: the HOTLAND check looks at line 254 only
genocide_areas_254(data, rank) ==
    (IF rank >= 1 THEN <<strip(Line(data, 251)) = One>> ELSE <<>>)
    \o (IF rank >= 2 THEN <<strip(Line(data, 252)) = One>> ELSE <<>>)
    \o (IF rank >= 3 THEN <<strip(Line(data, 253)) = One>> ELSE <<>>)
    \o (IF rank >= 4 THEN <<strip(Line(data, 254)) = One>> ELSE <<>>)

\* The list genocide_areas of a save at progress rank `rank`, but for the
\* LOVE check that rank 6 appends
genocide_areas(data, rank) ==
    (IF rank >= 1 THEN <<strip(Line(data, 251)) = One>> ELSE <<>>)
    \o (IF rank >= 2 THEN <<strip(Line(data, 252)) = One>> ELSE <<>>)
    \o (IF rank >= 3 THEN <<strip(Line(data, 253)) = One>> ELSE <<>>)
    \o (IF rank >= 4 THEN <<strip(Line(data, 254)) = One \/ strip(Line(data, 255)) = One>>
                     ELSE <<>>)

\* all(iterable)
all(list) == \A i \in DOMAIN list : list[i]

\* The fields of the early return for a directory without file0
EmptySave ==
    [NAME |-> PyStr(EmptySaveName), FUN |-> PyStr(NA), LOVE |-> PyStr(NA), HP |-> PyStr(NA),
     GOLD |-> PyStr(NA), EXP |-> PyStr(NA), kills |-> PyStr(NA), room_id |-> PyStr(NA),
     room_name |-> PyStr(NA), room_area |-> PyStr(NA), genocide |-> PyStr(NA),
     data |-> PyList(NoLines)]

\* The end of Save.__init__, from the match statement on: room and ticks are
\* int(self.room_id) and int(data[548].strip()), rank is current_area
Classified(head, data, room, ticks, LOVE, rank) ==
    IF rank >= 6 /\ ~int(LOVE).ok
    THEN [raised |-> "ValueError", attrs |-> EmptyDir]
    ELSE [raised |-> "none",
          attrs |-> head @@
            [NAME |-> PyStr(strip(Line(data, 0))),
             FUN |-> PyStr(strip(Line(data, 35))),
             LOVE |-> PyStr(LOVE),
             HP |-> PyStr(strip(Line(data, 2))),
             GOLD |-> PyStr(strip(Line(data, 10))),
             EXP |-> PyStr(strip(Line(data, 9))),
             kills |-> PyStr(strip(Line(data, 11))),
             room_id |-> PyStr(strip(Line(data, 547))),
             room_name |-> PyStr(Get(Item(ROOM_IDS, room), "name", <<>>)),
             room_area |-> PyStr(Get(Item(ROOM_IDS, room), "area", <<>>)),
             playtime |-> PyDelta(round_div30(ticks)),
             data |-> PyList(data),
             genocide |-> PyBool(
                 all(IF rank >= 6
                     THEN Append(genocide_areas(data, rank), int(LOVE).v >= 19)
                     ELSE genocide_areas(data, rank))
                 \/ strip(Line(data, 510)) = One)]]

\* The reads of Save.__init__ from file0, whose lines are data: room and ticks
\* are the results of int() on lines 547 and 548
Parsed(head, data, room, ticks) ==
    IF \E i \in {0, 35, 1, 2, 10, 9, 11, 547} : i >= data.n
    THEN [raised |-> "IndexError", attrs |-> EmptyDir]
    ELSE IF ~room.ok THEN [raised |-> "ValueError", attrs |-> EmptyDir]
    ELSE IF ~InRange(ROOM_IDS, room.v) THEN [raised |-> "IndexError", attrs |-> EmptyDir]
    ELSE IF 548 >= data.n THEN [raised |-> "IndexError", attrs |-> EmptyDir]
    ELSE IF ~ticks.ok THEN [raised |-> "ValueError", attrs |-> EmptyDir]
    ELSE Classified(head, data, room.v, ticks.v, strip(Line(data, 1)),
                    current_area(Get(Item(ROOM_IDS, room.v), "area", <<>>)))

\* Save.__init__(dir_path) for the directory `dir` named `title`: the exception
\* it raises, or "none" and the attributes of the new object
Save__init__(title, dir) ==
    IF ~is_valid(dir)
    THEN [raised |-> "none",
          attrs |-> [path |-> PyStr(<<title>>), TITLE |-> PyStr(<<title>>)] @@ EmptySave]
    ELSE Parsed([path |-> PyStr(<<title>>), TITLE |-> PyStr(<<title>>)],
                dir["file0"].c,
                int(strip(Line(dir["file0"].c, 547))),
                int(strip(Line(dir["file0"].c, 548))))

----------------------------------------------------------------------------
(* The last call *)

BackupNames == {"b1", "b2"}

None == [kind |-> "None", names |-> {}, attrs |-> EmptyDir]

NoSnap == [live |-> EmptyDir, backup |-> EmptyDir]

Called(op, name, rm, printed, raised) ==
    [op |-> op, name |-> name, rm |-> rm, printed |-> printed, raised |-> raised]

----------------------------------------------------------------------------
(* Snapshot manager *)

\* list_backups(backup_dir): the subdirectories of the backup root
list_backups ==
    /\ ret' = [kind |-> "list", names |-> {n \in DOMAIN root : is_dir(root[n])}, attrs |-> EmptyDir]
    /\ result' = Called("list_backups", "", FALSE, "", "none")
    /\ snap' = NoSnap
    /\ UNCHANGED <<live, root, used>>

\* Mutant of backup_save: the backup root is emptied before the copy
backup_save_alone(name, rm) ==
    \E made \in {copytree_to(EmptyDir, name, live)} :
        LET ok == made.raised = "none"
        IN /\ root' = made.tree
           /\ live' = IF ok /\ rm THEN RemoveItems(live) ELSE live
           /\ result' = Called("backup_save", name, rm, IF ok THEN "created" ELSE "", made.raised)
           /\ ret' = None
           /\ snap' = [live |-> live, backup |-> IF exists(root, name) THEN root[name].e ELSE EmptyDir]
           /\ UNCHANGED used

\* backup_save(name, backup_dir, rm)
backup_save(name, rm) ==
    \E made \in {copytree_to(root, name, live)} :
        LET ok == made.raised = "none"
        IN /\ root' = made.tree
           /\ live' = IF ok /\ rm THEN RemoveItems(live) ELSE live
           /\ result' = Called("backup_save", name, rm, IF ok THEN "created" ELSE "", made.raised)
           /\ ret' = None
           /\ snap' = [live |-> live, backup |-> IF exists(root, name) THEN root[name].e ELSE EmptyDir]
           /\ UNCHANGED used

\* Mutant of path_exists: the check for a missing backup is lost
path_assumed(name) == TRUE

\* path.exists() for path = backup root / name
path_exists(name) == exists(root, name)

\* path.iterdir(): the entries of backup root / name
Entries(name) == IF exists(root, name) THEN root[name].e ELSE EmptyDir

\* load_save(path, rm) with path = backup root / name
load_save(name, rm) ==
    /\ ret' = None
    /\ UNCHANGED used
    /\ IF ~path_exists(name)
       THEN /\ result' = Called("load_save", name, rm, "does not exist", "none")
            /\ snap' = NoSnap
            /\ UNCHANGED <<live, root>>
       ELSE IF SaveExists(live) /\ ~rm
       THEN /\ result' = Called("load_save", name, rm, "Current save exists", "none")
            /\ snap' = NoSnap
            /\ UNCHANGED <<live, root>>
       ELSE \E done \in {LoadItems(order, Entries(name),
                                   IF SaveExists(live) THEN RemoveItems(live) ELSE live) :
                           order \in iterdir(Entries(name))} :
              /\ live' = done.tree
              /\ result' = Called("load_save", name, rm,
                                  IF done.raised = "none" THEN "loaded" ELSE "", done.raised)
              /\ snap' = IF rm /\ result.op = "backup_save" /\ result.name = name
                         THEN snap ELSE NoSnap
              /\ UNCHANGED root

\* Save(dir_path) for GAME_SAVE_DIR (d = "UNDERTALE") or for the backup root / d
DirOf(d) == IF d = "UNDERTALE" THEN live ELSE root[d].e

Save(d) ==
    /\ d = "UNDERTALE" \/ exists(root, d)
    /\ \E made \in {Save__init__(d, DirOf(d))} :
       /\ result' = Called("Save", d, FALSE, "", made.raised)
       /\ ret' = IF made.raised = "none"
                 THEN [kind |-> "Save", names |-> {}, attrs |-> made.attrs]
                 ELSE None
       /\ snap' = NoSnap
       /\ UNCHANGED <<live, root, used>>

----------------------------------------------------------------------------
(* The game and the user, who write the live save directory *)

\* "Frisk\n"
NameLine == <<"F", "r", "i", "s", "k", "\n">>

\* The lines of a file0 of n lines with the given lines at the positions
\* the reader looks at
SaveLines(n, love, flags, override, room, ticks) ==
    [n |-> n,
     at |-> (0 :> NameLine) @@ (1 :> love) @@ (251 :> flags[1]) @@ (252 :> flags[2])
            @@ (253 :> flags[3]) @@ (254 :> flags[4]) @@ (255 :> flags[5])
            @@ (510 :> override) @@ (547 :> room) @@ (548 :> ticks)]

\* A save in the room Beginning with LOVE k and 900 ticks played
PlainSave(k) ==
    SaveLines(549, NumberLine(k), <<Fill, Fill, Fill, Fill, Fill>>, Fill,
              NumberLine(4), NumberLine(900))

\* The one line of any other file
OtherLines == [n |-> 1, at |-> (0 :> <<"x">>)]

\* What the game writes to a save file: one of two saves to file0, which differ
\* in LOVE, and one line to file9 and to undertale.ini
MarkerContents(n) == IF n = "file0" THEN {PlainSave(1), PlainSave(2)} ELSE {OtherLines}

\* Writing the entry name n stays within the names of this run
MayWrite(n) == n \in used \/ Cardinality(used) < MaxNames

\* The game writes one of its save files
GameWrites(n, c) ==
    /\ MayWrite(n)
    /\ live' = Put(live, n, File(c))
    /\ used' = used \cup {n}
    /\ result' = Called("game", "", FALSE, "", "none")
    /\ ret' = None
    /\ snap' = NoSnap
    /\ UNCHANGED root

\* Something else appears in the live directory under the name x: a file, or a
\* directory that holds a file x of its own
Extras == {File(OtherLines), Directory(Put(EmptyDir, "x", File(OtherLines)))}

UserPuts(node) ==
    /\ MayWrite("x")
    /\ ~exists(live, "x")
    /\ live' = Put(live, "x", node)
    /\ used' = used \cup {"x"}
    /\ result' = Called("user", "", FALSE, "", "none")
    /\ ret' = None
    /\ snap' = NoSnap
    /\ UNCHANGED root

\* The game saves for the first time: file0 is written with lines of its choosing
LoveLines ==
    {NumberLine(1), NumberLine(18), NumberLine(19), <<" ", "2", "0", " ", "\n">>, <<"?", "\n">>}

FlagLines == {Fill, <<"1", "\n">>}

FirstFlagLines == FlagLines \cup {<<"1", " ", "\n">>, <<"1", "1", "\n">>}

OverrideLines == FlagLines \cup {<<"2", "\n">>}

RoomLines ==
    {NumberLine(k) : k \in {0} \cup 4..11} \cup {<<"-", "1", "\n">>, <<"r", "\n">>}

GameSaves(n, love, flags, override, room) ==
    /\ live' = Put(live, "file0", File(SaveLines(n, love, flags, override, room, NumberLine(900))))
    /\ used' = used \cup {"file0"}
    /\ result' = Called("game", "", FALSE, "", "none")
    /\ ret' = None
    /\ snap' = NoSnap
    /\ UNCHANGED root

\* The game saves for the first time after t ticks of play, in the first room
GamePlays(t) ==
    /\ live' = Put(live, "file0",
                   File(SaveLines(549, NumberLine(1), <<Fill, Fill, Fill, Fill, Fill>>, Fill,
                                  NumberLine(4), NumberLine(t))))
    /\ used' = used \cup {"file0"}
    /\ result' = Called("game", "", FALSE, "", "none")
    /\ ret' = None
    /\ snap' = NoSnap
    /\ UNCHANGED root

----------------------------------------------------------------------------
(* The application state outside the two directories *)

\* CONFIG_FILE does not exist
Absent == [there |-> FALSE, text |-> <<>>]

\* No BackupNameScreen is open
NoScreen == [open |-> FALSE, rm |-> FALSE, title |-> "", before |-> EmptyDir]

----------------------------------------------------------------------------
(* JSON, as json.load and json.dump(indent=2) read and write it.  A value is a
   record: t its Python type, items the <<key, value>> pairs of a dict in
   insertion order or the <<"", value>> elements of a list, s the characters
   of a str, n the number of an int and the truth of a bool.  Floats, exponents
   and the escapes other than \" \\ \/ are left out. *)

JDict(items) == [t |-> "dict", items |-> items, s |-> <<>>, n |-> 0]

JList(items) == [t |-> "list", items |-> items, s |-> <<>>, n |-> 0]

JStr(s) == [t |-> "str", items |-> <<>>, s |-> s, n |-> 0]

JInt(n) == [t |-> "int", items |-> <<>>, s |-> <<>>, n |-> n]

JBool(b) == [t |-> "bool", items |-> <<>>, s |-> <<>>, n |-> IF b THEN 1 ELSE 0]

JNone == [t |-> "NoneType", items |-> <<>>, s |-> <<>>, n |-> 0]

\* d[k] = v on the dict with pairs `items`: the value of an existing key is
\* replaced in place, a new key is added at the end
RECURSIVE SetItem(_, _, _)
SetItem(items, k, v) ==
    IF items = <<>> THEN <<<<k, v>>>>
    ELSE IF Head(items)[1] = k THEN <<<<k, v>>>> \o Tail(items)
    ELSE <<Head(items)>> \o SetItem(Tail(items), k, v)

\* The text s without its first n characters
Drop(s, n) == SubSeq(s, n + 1, Len(s))

StartsWith(s, word) == Len(s) >= Len(word) /\ SubSeq(s, 1, Len(word)) = word

\* What the decoder could not read: JSONDecodeError
NoJSON == [ok |-> FALSE, v |-> JNone, rest |-> <<>>]

\* The characters of a JSON string up to its closing quote, s being the text
\* after the opening quote
RECURSIVE scanstring(_, _)
scanstring(s, acc) ==
    IF s = <<>> THEN NoJSON
    ELSE IF Head(s) = "\"" THEN [ok |-> TRUE, v |-> JStr(acc), rest |-> Tail(s)]
    ELSE IF Head(s) = "\\"
    THEN IF Len(s) >= 2 /\ s[2] \in {"\"", "\\", "/"}
         THEN scanstring(Drop(s, 2), Append(acc, s[2]))
         ELSE NoJSON
    ELSE IF Head(s) \in {"\n", "\t", "\r"} THEN NoJSON
    ELSE scanstring(Tail(s), Append(acc, Head(s)))

\* The digits a text starts with
RECURSIVE LeadingDigits(_)
LeadingDigits(s) ==
    IF s # <<>> /\ \E d \in DOMAIN Digits : Digits[d] = Head(s)
    THEN <<Head(s)>> \o LeadingDigits(Tail(s))
    ELSE <<>>

\* An integer: an optional minus sign, then 0 or digits that do not start with 0
scannumber(s) ==
    LET neg == s # <<>> /\ Head(s) = "-"
        body == LeadingDigits(IF neg THEN Tail(s) ELSE s)
        digits == IF body # <<>> /\ Head(body) = "0" THEN <<"0">> ELSE body
    IN IF digits = <<>> THEN NoJSON
       ELSE [ok |-> TRUE,
             v |-> JInt(IF neg THEN 0 - Decimal(digits) ELSE Decimal(digits)),
             rest |-> Drop(s, Len(digits) + (IF neg THEN 1 ELSE 0))]

\* scan_once: the JSON value a text starts with.  scanitems reads the pairs of
\* an object (keyed) or the elements of an array up to the bracket `close`, s
\* standing at the first of them.
RECURSIVE scan_once(_), scanitems(_, _, _, _), scanrest(_, _, _, _, _)
scan_once(s) ==
    IF s = <<>> THEN NoJSON
    ELSE IF Head(s) = "\"" THEN scanstring(Tail(s), <<>>)
    ELSE IF Head(s) = "{"
    THEN IF lstrip(Tail(s)) # <<>> /\ Head(lstrip(Tail(s))) = "}"
         THEN [ok |-> TRUE, v |-> JDict(<<>>), rest |-> Tail(lstrip(Tail(s)))]
         ELSE scanitems(lstrip(Tail(s)), TRUE, "}", <<>>)
    ELSE IF Head(s) = "["
    THEN IF lstrip(Tail(s)) # <<>> /\ Head(lstrip(Tail(s))) = "]"
         THEN [ok |-> TRUE, v |-> JList(<<>>), rest |-> Tail(lstrip(Tail(s)))]
         ELSE scanitems(lstrip(Tail(s)), FALSE, "]", <<>>)
    ELSE IF StartsWith(s, <<"n", "u", "l", "l">>) THEN [ok |-> TRUE, v |-> JNone, rest |-> Drop(s, 4)]
    ELSE IF StartsWith(s, <<"t", "r", "u", "e">>) THEN [ok |-> TRUE, v |-> JBool(TRUE), rest |-> Drop(s, 4)]
    ELSE IF StartsWith(s, <<"f", "a", "l", "s", "e">>)
    THEN [ok |-> TRUE, v |-> JBool(FALSE), rest |-> Drop(s, 5)]
    ELSE scannumber(s)

scanitems(s, keyed, close, acc) ==
    IF ~keyed THEN scanrest(<<>>, scan_once(s), keyed, close, acc)
    ELSE IF s = <<>> \/ Head(s) # "\"" THEN NoJSON
    ELSE LET key == scanstring(Tail(s), <<>>)
             colon == lstrip(key.rest)
         IN IF ~key.ok \/ colon = <<>> \/ Head(colon) # ":" THEN NoJSON
            ELSE scanrest(key.v.s, scan_once(lstrip(Tail(colon))), keyed, close, acc)

\* The item with key k and scanned value `item` is added to acc; a comma leads
\* to the next item, the closing bracket ends the object or array
scanrest(k, item, keyed, close, acc) ==
    IF ~item.ok THEN NoJSON
    ELSE LET next == lstrip(item.rest)
             items == IF keyed THEN SetItem(acc, k, item.v) ELSE Append(acc, <<k, item.v>>)
         IN IF next = <<>> THEN NoJSON
            ELSE IF Head(next) = close
            THEN [ok |-> TRUE, v |-> IF keyed THEN JDict(items) ELSE JList(items), rest |-> Tail(next)]
            ELSE IF Head(next) = "," THEN scanitems(lstrip(Tail(next)), keyed, close, items)
            ELSE NoJSON

\* json.load(f) of a file with the given text: one value with whitespace
\* around it, anything else raises JSONDecodeError (ok = FALSE)
json_load(text) ==
    IF scan_once(lstrip(text)).ok /\ lstrip(scan_once(lstrip(text)).rest) = <<>>
    THEN [ok |-> TRUE, v |-> scan_once(lstrip(text)).v]
    ELSE [ok |-> FALSE, v |-> JNone]

\* The text of a str between quotes, with " and \ escaped
RECURSIVE encode_basestring(_)
encode_basestring(s) ==
    IF s = <<>> THEN <<>>
    ELSE (IF Head(s) \in {"\"", "\\"} THEN <<"\\", Head(s)>> ELSE <<Head(s)>>)
         \o encode_basestring(Tail(s))

\* A newline and the indentation of nesting level `level`, two spaces a level
RECURSIVE newline_indent(_)
newline_indent(level) == IF level = 0 THEN <<"\n">> ELSE newline_indent(level - 1) \o <<" ", " ">>

\* json.dump(v, f, indent=2): the text written for v at nesting level `level`
RECURSIVE json_dump(_, _), dump_items(_, _, _)
json_dump(v, level) ==
    IF v.t = "str" THEN <<"\"">> \o encode_basestring(v.s) \o <<"\"">>
    ELSE IF v.t = "int" THEN (IF v.n < 0 THEN <<"-">> \o Numeral(0 - v.n) ELSE Numeral(v.n))
    ELSE IF v.t = "bool" THEN (IF v.n = 1 THEN <<"t", "r", "u", "e">> ELSE <<"f", "a", "l", "s", "e">>)
    ELSE IF v.t = "NoneType" THEN <<"n", "u", "l", "l">>
    ELSE IF v.items = <<>> THEN (IF v.t = "dict" THEN <<"{", "}">> ELSE <<"[", "]">>)
    ELSE <<IF v.t = "dict" THEN "{" ELSE "[">>
         \o dump_items(v.items, v.t = "dict", level + 1)
         \o newline_indent(level) \o <<IF v.t = "dict" THEN "}" ELSE "]">>

dump_items(items, keyed, level) ==
    IF items = <<>> THEN <<>>
    ELSE newline_indent(level)
         \o (IF keyed
             THEN <<"\"">> \o encode_basestring(Head(items)[1]) \o <<"\"", ":", " ">>
             ELSE <<>>)
         \o json_dump(Head(items)[2], level)
         \o (IF Tail(items) = <<>> THEN <<>> ELSE <<",">>)
         \o dump_items(Tail(items), keyed, level)

----------------------------------------------------------------------------
(* The application: the save list *)

\* for save in list_backups(self.backup_dir): append(SaveWidget(Save(save))),
\* with list_backups yielding the backups in the order `order`: the titles
\* appended, and the exception of the first Save that raises, which ends the loop
RECURSIVE Appended(_, _)
Appended(dir, order) ==
    IF order = <<>>
    THEN [names |-> {}, raised |-> "none"]
    ELSE IF Save__init__(Head(order), dir[Head(order)].e).raised # "none"
    THEN [names |-> {}, raised |-> Save__init__(Head(order), dir[Head(order)].e).raised]
    ELSE [names |-> {Head(order)} \cup Appended(dir, Tail(order)).names,
          raised |-> Appended(dir, Tail(order)).raised]

\* UndertaleManagerApp.refresh_save_list() with a backup directory set: the
\* list view is cleared and filled again (SaveListView.compose runs the same
\* loop when the view is mounted)
refresh_save_list ==
    \E done \in {Appended(root, order) : order \in iterdir(root)} :
        /\ ret' = [kind |-> "SaveListView", names |-> done.names, attrs |-> EmptyDir]
        /\ result' = Called("refresh_save_list", "", FALSE, "", done.raised)
        /\ snap' = NoSnap
        /\ UNCHANGED <<live, root, used, config_file, screen>>

\* Saves the reader cannot read: 548 lines only, a room id or a tick count
\* that is no number
CorruptSaves ==
    {SaveLines(548, NumberLine(1), <<Fill, Fill, Fill, Fill, Fill>>, Fill,
               NumberLine(4), NumberLine(900)),
     SaveLines(549, NumberLine(1), <<Fill, Fill, Fill, Fill, Fill>>, Fill,
               <<"r", "\n">>, NumberLine(900)),
     SaveLines(549, NumberLine(1), <<Fill, Fill, Fill, Fill, Fill>>, Fill,
               NumberLine(4), <<"t", "\n">>)}

----------------------------------------------------------------------------
(* The configuration file *)

\* The key under which the backup directory is kept
backup_dir_key == <<"b", "a", "c", "k", "u", "p", "_", "d", "i", "r">>

\* load_config(): the value json.load reads from CONFIG_FILE, whatever its
\* type; {} when the file is absent or json.load raises
Loaded(file) ==
    IF file.there /\ json_load(file.text).ok THEN json_load(file.text).v ELSE JDict(<<>>)

load_config ==
    /\ ret' = [kind |-> Loaded(config_file).t, names |-> {}, attrs |-> [value |-> Loaded(config_file)]]
    /\ result' = Called("load_config", "", FALSE, "", "none")
    /\ snap' = NoSnap
    /\ UNCHANGED <<live, root, used, config_file, screen>>

\* save_config(config): the file is opened for writing and the configuration
\* dumped into it with an indentation of two spaces
save_config(config) ==
    /\ config_file' = [there |-> TRUE, text |-> json_dump(config, 0)]
    /\ ret' = None
    /\ result' = Called("save_config", "", FALSE, "", "none")
    /\ snap' = NoSnap
    /\ UNCHANGED <<live, root, used, screen>>

\* UndertaleManagerApp.choose_directory() when the user has chosen the
\* directory with path `dir`: the configuration is loaded, the path stored in
\* it under backup_dir, the configuration saved and the save list refreshed.
\* Only a dict takes the item assignment; any other value raises TypeError.
choose_directory(dir) ==
    /\ snap' = NoSnap
    /\ UNCHANGED <<live, root, used, screen>>
    /\ \E config \in {Loaded(config_file)} :
          IF config.t # "dict"
          THEN /\ result' = Called("choose_directory", "", FALSE, "", "TypeError")
               /\ ret' = None
               /\ UNCHANGED config_file
          ELSE /\ config_file' =
                     [there |-> TRUE,
                      text |-> json_dump(JDict(SetItem(config.items, backup_dir_key, JStr(dir))), 0)]
               /\ \E done \in {Appended(root, order) : order \in iterdir(root)} :
                     /\ ret' = [kind |-> "SaveListView", names |-> done.names, attrs |-> EmptyDir]
                     /\ result' = Called("choose_directory", "", FALSE, "", done.raised)

\* Paths the user chooses for the backup directory, as str() writes them
BackupDirs == {<<"D">>, <<"C", ":", "\\", "b">>}

\* Configurations handed to save_config
Configs ==
    {JDict(<<>>),
     JDict(<<<<backup_dir_key, JStr(<<"/", "t">>)>>, <<<<"s">>, JStr(<<"v">>)>>>>),
     JDict(<<<<<<"q", "\"">>, JInt(7)>>, <<<<"l">>, JList(<<<<<<>>, JNone>>>>)>>>>)}

\* Texts the configuration file may hold when the application did not write
\* it: nothing, no JSON, JSON objects and JSON values of other types
ConfigTexts ==
    {<<>>,
     <<"i", "n", "v", "a", "l", "i", "d", " ", "j", "s", "o", "n", "{">>,
     <<"{", "}">>,
     <<"{", "\"">> \o backup_dir_key \o <<"\"", ":", " ", "\"", "/", "t", "\"", "}">>,
     <<"[", "]">>,
     <<"4", "2">>,
     <<"n", "u", "l", "l">>,
     <<"\"">> \o backup_dir_key \o <<"\"">>}

\* The configuration file is written from outside the application
ConfigWritten(text) ==
    /\ config_file' = [there |-> TRUE, text |-> text]
    /\ result' = Called("user", "", FALSE, "", "none")
    /\ ret' = None
    /\ snap' = NoSnap
    /\ UNCHANGED <<live, root, used, screen>>

----------------------------------------------------------------------------
(* The application: the buttons.  A handler runs to its end before the next
   event is taken; push_screen puts the screen on the stack and returns at
   once, so what follows it in a handler runs before the new screen gets any
   event.  config_file is left alone by every handler here. *)

\* The names typed into the backup-name prompt, as strip() leaves them
Inputs == {""} \cup BackupNames

\* SaveDetailScreen.on_button_pressed, button "load", on the detail screen of
\* the backup `name`, a backup the save list could read
load_button(name) ==
    /\ ~screen.open
    /\ exists(root, name) /\ is_dir(root[name])
    /\ Save__init__(name, root[name].e).raised = "none"
    /\ ret' = None
    /\ snap' = NoSnap
    /\ UNCHANGED <<root, used, config_file>>
    /\ IF ~is_valid(root[name].e)
       THEN /\ result' = Called("load", name, TRUE, "Cannot load an empty save.", "none")
            /\ UNCHANGED <<live, screen>>
       ELSE \E current \in {Save__init__("UNDERTALE", live)} :
              IF current.raised # "none"
              THEN /\ result' = Called("load", name, TRUE, "", current.raised)
                   /\ UNCHANGED <<live, screen>>
              ELSE /\ screen' = IF is_valid(live)
                                THEN [open |-> TRUE, rm |-> TRUE, title |-> name, before |-> live]
                                ELSE screen
                   /\ \E done \in {LoadItems(order, Entries(name),
                                              IF SaveExists(live) THEN RemoveItems(live) ELSE live) :
                                      order \in iterdir(Entries(name))} :
                         /\ live' = done.tree
                         /\ result' = Called("load", name, TRUE,
                                             IF done.raised = "none" THEN "Loaded save" ELSE "",
                                             done.raised)

\* UndertaleManagerApp.on_button_pressed, button "backup", with a backup
\* directory set
backup_button ==
    /\ ~screen.open
    /\ ret' = None
    /\ snap' = NoSnap
    /\ UNCHANGED <<live, root, used, config_file>>
    /\ \E current \in {Save__init__("UNDERTALE", live)} :
          IF current.raised # "none"
          THEN /\ result' = Called("backup", "", FALSE, "", current.raised)
               /\ UNCHANGED screen
          ELSE IF ~is_valid(live)
          THEN /\ result' = Called("backup", "", FALSE, "Current save is empty; nothing to back up.", "none")
               /\ UNCHANGED screen
          ELSE /\ result' = Called("backup", "", FALSE, "", "none")
               /\ screen' = [open |-> TRUE, rm |-> FALSE, title |-> "UNDERTALE", before |-> live]

\* BackupNameScreen.on_button_pressed, button "confirm", with `input` typed:
\* backup_save under that name if there is one, then the save list is
\* refreshed and the prompt dismissed
confirm_button(input) ==
    /\ screen.open
    /\ snap' = NoSnap
    /\ UNCHANGED <<used, config_file>>
    /\ \E made \in {IF input # "" THEN copytree_to(root, input, live)
                                   ELSE [tree |-> root, raised |-> "none"]} :
          /\ root' = made.tree
          /\ IF made.raised # "none"
             THEN /\ result' = Called("confirm", input, screen.rm, "", made.raised)
                  /\ ret' = None
                  /\ UNCHANGED <<live, screen>>
             ELSE /\ live' = IF input # "" /\ screen.rm THEN RemoveItems(live) ELSE live
                  /\ \E done \in {Appended(made.tree, order) : order \in iterdir(made.tree)} :
                        /\ ret' = [kind |-> "SaveListView", names |-> done.names, attrs |-> EmptyDir]
                        /\ result' = Called("confirm", input, screen.rm,
                                            IF input = "" THEN "No name given; Proceeding to load"
                                            ELSE IF screen.rm THEN "Saved current game and backed up"
                                            ELSE "Backed up",
                                            done.raised)
                        /\ screen' = IF done.raised = "none" THEN NoScreen
                                     ELSE [screen EXCEPT !.rm = input = "" \/ screen.rm]

\* BackupNameScreen.on_button_pressed, button "cancel"
cancel_button ==
    /\ screen.open
    /\ screen' = NoScreen
    /\ result' = Called("cancel", "", screen.rm, "", "none")
    /\ ret' = None
    /\ snap' = NoSnap
    /\ UNCHANGED <<live, root, used, config_file>>

----------------------------------------------------------------------------
(* Specifications *)

Init ==
    /\ live = EmptyDir
    /\ root = EmptyDir
    /\ result = Called("init", "", FALSE, "", "none")
    /\ ret = None
    /\ snap = NoSnap
    /\ used = {}
    /\ config_file = Absent
    /\ screen = NoScreen

\* The snapshot manager and the save reader called directly, as the tests call
\* them: no application is running
NoApp == UNCHANGED <<config_file, screen>>

Next ==
    \/ list_backups /\ NoApp
    \/ \E name \in BackupNames, rm \in BOOLEAN : backup_save(name, rm) /\ NoApp
    \/ \E name \in BackupNames, rm \in BOOLEAN : load_save(name, rm) /\ NoApp
    \/ \E n \in {"file0", "file9", "undertale.ini"} : \E c \in MarkerContents(n) :
          GameWrites(n, c) /\ NoApp
    \/ \E node \in Extras : UserPuts(node) /\ NoApp
    \/ \E d \in {"UNDERTALE"} \cup BackupNames : Save(d) /\ NoApp

Spec == Init /\ [][Next]_vars

\* The save reader alone, over the saves the game may write
NextSave ==
    \/ /\ live = EmptyDir
       /\ \E n \in {548, 549}, love \in LoveLines, f1 \in FirstFlagLines,
             override \in OverrideLines, room \in RoomLines, f2, f3, f4, f5 \in FlagLines :
             GameSaves(n, love, <<f1, f2, f3, f4, f5>>, override, room) /\ NoApp
    \/ /\ live = EmptyDir
       /\ \E t \in 0..MaxTicks : GamePlays(t) /\ NoApp
    \/ Save("UNDERTALE") /\ NoApp

SpecSave == Init /\ [][NextSave]_vars

\* The save list over backups of readable and unreadable saves
NextList ==
    \/ \E c \in {PlainSave(1)} \cup CorruptSaves : GameWrites("file0", c) /\ NoApp
    \/ \E name \in BackupNames, rm \in BOOLEAN : backup_save(name, rm) /\ NoApp
    \/ refresh_save_list

SpecList == Init /\ [][NextList]_vars

\* The configuration file, written by the application and from outside it,
\* beside a backup directory for the save list to show
NextConfig ==
    \/ \E text \in ConfigTexts : ConfigWritten(text)
    \/ load_config
    \/ \E config \in Configs : save_config(config)
    \/ \E dir \in BackupDirs : choose_directory(dir)
    \/ \E c \in MarkerContents("file0") : GameWrites("file0", c) /\ NoApp
    \/ \E name \in BackupNames, rm \in BOOLEAN : backup_save(name, rm) /\ NoApp

SpecConfig == Init /\ [][NextConfig]_vars

\* The buttons of the application; the game is played while no prompt is open
NextTui ==
    \/ /\ ~screen.open
       /\ \E c \in MarkerContents("file0") : GameWrites("file0", c) /\ NoApp
    \/ \E name \in BackupNames : load_button(name)
    \/ backup_button
    \/ \E input \in Inputs : confirm_button(input)
    \/ cancel_button

SpecTui == Init /\ [][NextTui]_vars

----------------------------------------------------------------------------
(* Properties of the snapshot manager.  A step is recognised by the call it
   records in result'; the unprimed variables are the state before the call. *)

Markers == {"file0", "file9", "undertale.ini"}

\* root/name before a call, empty when it does not exist
BackupAt(r, name) == IF name \in DOMAIN r THEN r[name].e ELSE EmptyDir

\* Every entry of src is in dst at the same relative path, a file with the same lines
RECURSIVE Holds(_, _)
Holds(dst, src) ==
    \A n \in DOMAIN src :
        /\ n \in DOMAIN dst
        /\ dst[n].t = src[n].t
        /\ IF src[n].t = "file" THEN dst[n].c = src[n].c ELSE Holds(dst[n].e, src[n].e)

\* Every file of old whose relative path is not a path of src is in new, unchanged
RECURSIVE Kept(_, _, _)
Kept(new, old, src) ==
    \A n \in DOMAIN old :
        IF old[n].t = "file"
        THEN n \in DOMAIN src \/ (n \in DOMAIN new /\ new[n] = old[n])
        ELSE /\ n \in DOMAIN new
             /\ new[n].t = "dir"
             /\ Kept(new[n].e, old[n].e,
                     IF n \in DOMAIN src /\ src[n].t = "dir" THEN src[n].e ELSE EmptyDir)

\* No relative path is a file in one tree and a directory in the other
RECURSIVE SameKinds(_, _)
SameKinds(a, b) ==
    \A n \in DOMAIN a \cap DOMAIN b :
        /\ a[n].t = b[n].t
        /\ a[n].t = "dir" => SameKinds(a[n].e, b[n].e)

\* Every entry of a is an entry of b of the same kind, at every depth
RECURSIVE Within(_, _)
Within(a, b) ==
    \A n \in DOMAIN a :
        /\ n \in DOMAIN b
        /\ a[n].t = b[n].t
        /\ a[n].t = "dir" => Within(a[n].e, b[n].e)

\* C1: load_save with rm = False for an existing backup, while the live
\* directory holds file0, file9 or undertale.ini, is refused: the live
\* directory and the backups are as before and nothing is copied.
C1_RefusedUnchanged ==
    [][ ( /\ result'.op = "load_save"
          /\ ~result'.rm
          /\ result'.name \in DOMAIN root
          /\ \E m \in Markers : m \in DOMAIN live )
        => ( /\ live' = live
             /\ root' = root
             /\ result'.printed = "Current save exists"
             /\ result'.raised = "none" ) ]_vars

\* A refusal caused by file9 or undertale.ini alone, the backup differing from the live directory
C1_Witness ==
    /\ result.op = "load_save"
    /\ ~result.rm
    /\ result.printed = "Current save exists"
    /\ "file0" \notin DOMAIN live
    /\ result.name \in DOMAIN root
    /\ root[result.name].e # live

\* C2: load_save with rm = True for an existing backup leaves the live directory
\* holding exactly the entries of the backup, whatever it held before.
C2_ClearedThenCopied ==
    [][ ( /\ result'.op = "load_save"
          /\ result'.rm
          /\ result'.name \in DOMAIN root
          /\ result'.raised = "none" )
        => live' = root[result'.name].e ]_vars

\* C3 as claimed: backup_save(name, rm) followed by load_save(root/name, rm=True)
\* leaves the live directory as it was before backup_save, for every prior
\* state of the backup root.
C3_RoundTripAnyRoot ==
    [][ ( /\ result.op = "backup_save"
          /\ result.raised = "none"
          /\ result'.op = "load_save"
          /\ result'.name = result.name
          /\ result'.rm
          /\ result'.raised = "none" )
        => live' = snap.live ]_vars

\* C3 amended: when every entry root/name held before backup_save is an entry
\* of the live directory of the same kind (so also when root/name was absent),
\* both calls complete and the live directory ends as it was before backup_save.
C3_RoundTrip ==
    [][ ( /\ result.op = "backup_save"
          /\ result'.op = "load_save"
          /\ result'.name = result.name
          /\ result'.rm
          /\ Within(snap.backup, snap.live) )
        => ( /\ result.raised = "none"
             /\ result'.raised = "none"
             /\ result'.printed = "loaded"
             /\ live' = snap.live ) ]_vars

\* A completed round trip of a live directory holding a save and a directory,
\* over a backup of that name already present
C3_Witness ==
    /\ result.op = "load_save"
    /\ result.rm
    /\ result.printed = "loaded"
    /\ "file0" \in DOMAIN snap.live
    /\ \E n \in DOMAIN snap.live : snap.live[n].t = "dir"
    /\ snap.backup # EmptyDir
    /\ Within(snap.backup, snap.live)
    /\ live = snap.live

\* C4 as claimed: after backup_save every entry of the live directory is under
\* root/name at the same relative path with the live lines, every file of
\* root/name without a counterpart in the live directory is unchanged, and
\* with rm = False the live directory is unchanged.
C4_MergeAnyKinds ==
    [][ ( result'.op = "backup_save" /\ result'.raised = "none" )
        => ( /\ Holds(BackupAt(root', result'.name), live)
             /\ Kept(BackupAt(root', result'.name), BackupAt(root, result'.name), live)
             /\ ~result'.rm => live' = live ) ]_vars

\* C4 amended: the same, when no relative path is a file in the live directory
\* and a directory under root/name or the reverse; the call then raises nothing.
C4_Merge ==
    [][ ( /\ result'.op = "backup_save"
          /\ SameKinds(live, BackupAt(root, result'.name)) )
        => ( /\ result'.raised = "none"
             /\ Holds(BackupAt(root', result'.name), live)
             /\ Kept(BackupAt(root', result'.name), BackupAt(root, result'.name), live)
             /\ ~result'.rm => live' = live ) ]_vars

\* A backup that overwrote file0 and kept an entry the live directory did not have
C4_Witness ==
    /\ result.op = "backup_save"
    /\ result.raised = "none"
    /\ ~result.rm
    /\ "file0" \in DOMAIN snap.backup
    /\ "file0" \in DOMAIN live
    /\ snap.backup["file0"] # live["file0"]
    /\ \E n \in DOMAIN snap.backup : n \notin DOMAIN live
    /\ SameKinds(snap.live, snap.backup)

\* C5 as claimed: backup_save with rm = True ends with the live directory empty
\* and root/name holding every entry the live directory had.
C5_ClearedAnyKinds ==
    [][ ( result'.op = "backup_save" /\ result'.rm )
        => ( /\ live' = EmptyDir
             /\ Holds(BackupAt(root', result'.name), live) ) ]_vars

\* C5 amended: backup_save with rm = True, when no relative path is a file in
\* the live directory and a directory under root/name or the reverse, ends with
\* the live directory empty and root/name holding every entry it had; and
\* whenever the copy raises, nothing is removed from the live directory.
C5_Cleared ==
    [][ ( result'.op = "backup_save" /\ result'.rm )
        => ( /\ SameKinds(live, BackupAt(root, result'.name))
                => ( /\ result'.raised = "none"
                     /\ live' = EmptyDir
                     /\ Holds(BackupAt(root', result'.name), live) )
             /\ result'.raised # "none" => live' = live ) ]_vars

\* A live directory with a save and a directory, emptied after its backup
C5_Witness ==
    /\ result.op = "backup_save"
    /\ result.rm
    /\ result.raised = "none"
    /\ live = EmptyDir
    /\ "file0" \in DOMAIN snap.live
    /\ \E n \in DOMAIN snap.live : snap.live[n].t = "dir"
    /\ Holds(root[result.name].e, snap.live)

\* C6: load_save for a backup path that does not exist prints that it does not
\* exist and changes neither the live directory nor the backups, with rm = True
\* as with rm = False.
C6_NotFoundUnchanged ==
    [][ ( result'.op = "load_save" /\ result'.name \notin DOMAIN root )
        => ( /\ live' = live
             /\ root' = root
             /\ result'.printed = "does not exist"
             /\ result'.raised = "none" ) ]_vars

\* A missing backup asked for with rm = True while the live directory holds a save
C6_Witness ==
    /\ result.op = "load_save"
    /\ result.rm
    /\ result.printed = "does not exist"
    /\ "file0" \in DOMAIN live
    /\ result.name \notin DOMAIN root

\* C7: an existing backup root/name is removed or changed only by a
\* backup_save with that name; no other call and no write of the live
\* directory alters it.
C7_BackupsOnlyOverwritten ==
    [][ \A n \in DOMAIN root :
          (n \notin DOMAIN root' \/ root'[n] # root[n])
          => (result'.op = "backup_save" /\ result'.name = n) ]_vars

\* Two different backups, one of them just loaded over a cleared live directory
C7_Witness ==
    /\ result.op = "load_save"
    /\ result.rm
    /\ result.printed = "loaded"
    /\ DOMAIN root = BackupNames
    /\ root["b1"] # root["b2"]
    /\ live = root[result.name].e

----------------------------------------------------------------------------
(* Properties of the save reader *)

\* The stripped line i of file0 in the live save directory
LiveLine(i) == strip(Line(live["file0"].c, i))

\* The last call was Save(GAME_SAVE_DIR) on a directory with file0 and returned an object
ReadLiveSave ==
    /\ result.op = "Save"
    /\ result.name = "UNDERTALE"
    /\ result.raised = "none"
    /\ "file0" \in DOMAIN live

\* C8: for a directory without file0, Save raises nothing and every data field
\* is defined and holds its sentinel (name, love, hp, gold, exp, kills, fun,
\* room id, room area, room name, playtime, genocide), with no lines kept.
C8_EmptySaveAllSentinels ==
    (result.op = "Save" /\ "file0" \notin DOMAIN DirOf(result.name))
    => ( /\ result.raised = "none"
         /\ ret.kind = "Save"
         /\ \A f \in {"NAME", "LOVE", "HP", "GOLD", "EXP", "kills", "FUN", "room_id",
                      "room_area", "room_name", "playtime", "genocide", "data"} :
              f \in DOMAIN ret.attrs
         /\ ret.attrs["NAME"] = PyStr(EmptySaveName)
         /\ \A f \in {"LOVE", "HP", "GOLD", "EXP", "kills", "FUN", "room_id",
                      "room_area", "room_name", "genocide"} : ret.attrs[f] = PyStr(NA)
         /\ ret.attrs["data"] = PyList(NoLines) )

\* The progress rank the claim gives each area of the room table
RankOfArea(area) ==
    IF area = <<"E", "R", "R", "O", "R">> THEN 0
    ELSE IF area = <<"R", "U", "I", "N", "S">> THEN 1
    ELSE IF area = <<"S", "N", "O", "W", "D", "I", "N">> THEN 2
    ELSE IF area = <<"W", "A", "T", "E", "R", "F", "A", "L", "L">> THEN 3
    ELSE IF area = <<"H", "O", "T", "L", "A", "N", "D">> THEN 4
    ELSE IF area = <<"C", "O", "R", "E">> THEN 5
    ELSE IF area = <<"N", "E", "W", " ", "H", "O", "M", "E">> THEN 6
    ELSE 7

C10_PlaytimeTieUp ==
    ReadLiveSave => ret.attrs["playtime"].n = (int(LiveLine(548)).v + 15) \div 30

\* C10 amended: playtime is ticks / 30 rounded to the nearest second, a tie
\* rounded to the even second.
C10_PlaytimeNearestEven ==
    ReadLiveSave =>
        LET t == int(LiveLine(548)).v
            p == ret.attrs["playtime"].n
            d == 30 * p - t
        IN /\ ret.attrs["playtime"].t = "timedelta"
           /\ d >= -15
           /\ d <= 15
           /\ (d = 15 \/ d = -15) => p % 2 = 0

\* A tie that rounds up to an even second: 45 ticks are 2 seconds
C10_Witness ==
    /\ ReadLiveSave
    /\ int(LiveLine(548)).v = 45
    /\ ret.attrs["playtime"].n = 2

----------------------------------------------------------------------------
(* Properties of the application *)

\* C11: building the save list produces an entry for every backup whose save
\* can be read, also when another backup is corrupt (file0 shorter than 549
\* lines, or a room id or tick count that is no number).
C11_ListingIsolated ==
    result.op = "refresh_save_list"
    => \A n \in DOMAIN root :
         Save__init__(n, root[n].e).raised = "none" => n \in ret.names

\* Whether the configuration file holds a well-formed JSON object
HoldsObject(file) == file.there /\ json_load(file.text).ok /\ json_load(file.text).v.t = "dict"

\* C12: the configuration is never fatal.  load_config() raises nothing and
\* returns a dict, the empty one when the file is absent or holds anything
\* other than a well-formed JSON object; choose_directory, which loads the
\* configuration, sets backup_dir in it and saves it, raises nothing; and
\* after save_config(c) load_config() returns c.
C12_ConfigNeverFatal ==
    [][/\ result'.op = "load_config"
          => /\ result'.raised = "none"
             /\ ret'.kind = "dict"
             /\ ~HoldsObject(config_file) => ret'.attrs.value = JDict(<<>>)
       /\ result'.op = "choose_directory" => result'.raised = "none"
       /\ \A config \in Configs : save_config(config) => Loaded(config_file') = config]_vars

\* C13: the prompt opened by the load button is answered with a name.  The
\* live save as it was before the load is in the backup of that name, and the
\* live directory holds the loaded backup and is not empty.
C13_LoadKeepsLiveSave ==
    [][(/\ screen.open /\ screen.rm /\ screen.title \in BackupNames
        /\ result'.op = "confirm" /\ result'.name # "" /\ result'.raised = "none")
       => /\ Holds(BackupAt(root', result'.name), screen.before)
          /\ live' # EmptyDir
          /\ Holds(live', BackupAt(root, screen.title))]_vars

\* C14: Save(GAME_SAVE_DIR) on a save whose room id line is an integer outside
\* 0..Len(ROOM_IDS)-1, above the last index or negative, raises an exception
\* and returns no object: no entry of the room table stands in for the room.
C14_RoomOutOfRangeFails ==
    ( /\ result.op = "Save"
      /\ result.name = "UNDERTALE"
      /\ "file0" \in DOMAIN live
      /\ int(LiveLine(547)).ok
      /\ (int(LiveLine(547)).v < 0 \/ int(LiveLine(547)).v >= Len(ROOM_IDS)) )
    => (result.raised # "none" /\ ret = None)

============================================================================
